---------------------------- MODULE Spec2Model ----------------------------
(***************************************************************************)
(* Model of icecube_tools: Simulator.run (simulator.py) and the spherical  *)
(* coordinate helpers / AngularResolution.sample (angular_resolution.py).  *)
(*                                                                         *)
(* Angles are whole degrees on a 30-degree grid; sines and cosines are     *)
(* scaled by 1000; probabilities are percentages.  self.source[label] of   *)
(* simulator.py is read as an index into the source list self._sources.    *)
(***************************************************************************)
EXTENDS Integers, Sequences, FiniteSets, TLC

(* ----------------------------- bounds --------------------------------- *)
\* largest total event count, forced by the caller or drawn from the Poisson
MaxN == 2

(* --------------------------- plain values ----------------------------- *)
DIFFUSE == "diffuse"
POINT == "point"

\* the source lists a Simulator is constructed with (types of the sources)
SourceLists == { <<DIFFUSE>>, <<DIFFUSE, DIFFUSE>>, <<POINT, DIFFUSE>> }
\* expected event counts the neutrino calculator may report for a source
ExpectedCounts == {0, 2}
\* values the caller leaves or sets self.max_cosz to (scaled by 1000)
MaxCoszValues == {1000, 0}
\* the effective-area tables a detector may carry
AeffTables == {"zero", "mixed"}
\* uniform draws of sphere_sample: u in twelfths, v in quarters
USamples == {0, 3}
VSamples == {0, 2, 3}
\* smearing added by the energy-resolution model
EnergySmearing == {-1, 1}

(* ------------------------- trigonometry ------------------------------- *)
Sin(a) ==
    LET m == a % 360
    IN  CASE m = 0 -> 0       [] m = 30 -> 500    [] m = 60 -> 866
          [] m = 90 -> 1000   [] m = 120 -> 866   [] m = 150 -> 500
          [] m = 180 -> 0     [] m = 210 -> -500  [] m = 240 -> -866
          [] m = 270 -> -1000 [] m = 300 -> -866  [] m = 330 -> -500

Cos(a) == Sin(a + 90)

\* np.arccos: the angle in [0, 180] whose cosine is z
ArcCos(z) == CHOOSE t \in {0, 30, 60, 90, 120, 150, 180} : Cos(t) = z

\* a float angle: a number of degrees, or nan
Deg(a) == [nan |-> FALSE, deg |-> a]
NaN == [nan |-> TRUE, deg |-> 0]

\* y / x on numpy floats: a zero divisor gives inf, -inf or nan (no exception);
\* otherwise the quotient n / d with d > 0
Divide(y, x) ==
    IF x = 0
    THEN [kind |-> (IF y > 0 THEN "inf" ELSE IF y < 0 THEN "-inf" ELSE "nan"),
          n |-> 0, d |-> 0]
    ELSE IF x > 0 THEN [kind |-> "num", n |-> y, d |-> x]
    ELSE [kind |-> "num", n |-> -y, d |-> -x]

\* np.arctan of one argument: the principal value, in [-90, 90]
ArcTan(q) ==
    CASE q.kind = "nan" -> NaN
      [] q.kind = "inf" -> Deg(90)
      [] q.kind = "-inf" -> Deg(-90)
      [] q.kind = "num" ->
            Deg(CHOOSE a \in {-60, -30, 0, 30, 60} : Sin(a) * q.d = Cos(a) * q.n)

(* ----------------- angular_resolution.py: conversions ----------------- *)
icrs_to_unit_vector(r, d) ==
    LET theta == 90 - d
        phi == r
    IN  << Sin(theta) * Cos(phi), Sin(theta) * Sin(phi), Cos(theta) >>

unit_vector_to_icrs(uv) ==
    LET x == uv[1]
        y == uv[2]
        z == uv[3]
        phi == ArcTan(Divide(y, x))
        theta == ArcCos(z)
    IN  [ra |-> phi, dec |-> 90 - theta]

\* AngularResolution.sample: converts the direction, then calls
\* self._get_angular_resolution() without its Etrue argument, which raises
angular_resolution_sample(E, r, d) ==
    [ unit_vector |-> icrs_to_unit_vector(r, d),
      raises |-> "TypeError" ]

(* --------------------- simulator.py: sampling ------------------------- *)
spherical_to_icrs(theta, phi) == [ra |-> phi, dec |-> 90 - theta]

\* u in twelfths of a turn, v in quarters: phi = 2 pi u, theta = arccos(2v - 1)
sphere_sample(u, v) ==
    LET phi == 30 * u
        theta == ArcCos(500 * (v - 2))
    IN  spherical_to_icrs(theta, phi)

(* ------------------------ collaborators ------------------------------- *)
\* flux_model.sample(1)[0] of source s: the energies its spectrum can give
FluxEnergies(s) == IF s = 1 THEN {100, 200} ELSE {100 * (s + 1)}
\* flux_model._upper_energy of source s
UpperEnergy(s) == IF s = 1 THEN 2000 ELSE 5000

\* effective_area.detection_probability(Etrue, cosz, max_energy), in percent
detection_probability(table, E, cz, maxE) ==
    CASE table = "zero" -> 0
      [] table = "mixed" ->
            IF E * 10 >= maxE THEN 100 ELSE IF cz <= 0 THEN 50 ELSE 0

\* energy_resolution.sample(Etrue)
energy_resolution_sample(E) == { E + n : n \in EnergySmearing }

\* np.random.poisson(mean), cut at MaxN
Poisson(mean) == IF mean = 0 THEN {0} ELSE 0 .. MaxN

\* np.random.choice([True, False], p=[p, 1 - p])
Bernoulli(p) == { b \in BOOLEAN : IF b THEN p > 0 ELSE p < 100 }

RECURSIVE SumSeq(_)
SumSeq(s) == IF s = <<>> THEN 0 ELSE Head(s) + SumSeq(Tail(s))


(* ------------------- simulator.py: Simulator state -------------------- *)
VARIABLES
    sources,        \* self._sources: the spatial type of each source
    aeff,           \* the table behind self.detector.effective_area
    nu_calc,        \* what NeutrinoCalculator returns for these sources
    max_cosz,       \* self.max_cosz
    pc,             \* position of run(): idle, for, select, while, append, done, error
    err,            \* the exception that ended run(), "" when none
    N_arg,          \* the argument N of the current run: <<>> for None, <<n>>
    N,              \* self.N
    Nex,            \* self._Nex
    source_weights, \* self._source_weights
    poisson_drawn,  \* whether this run called np.random.poisson
    true_energy, reco_energy, coordinate, ra, dec, source_label,
    i,              \* number of trials completed by the for loop
    label, accepted, max_energy, Etrue, l_ra, l_dec, cosz, detection_prob,
    aeff_queried,   \* whether the last attempt called detection_probability
    sampler_call,   \* arguments of this trial's angular_resolution.sample call
    stage, c_ra, c_dec, unit_vector, icrs   \* a caller's use of the conversions

config == <<sources, aeff, nu_calc, max_cosz>>
catalog == <<true_energy, reco_energy, coordinate, ra, dec, source_label>>
locals == <<label, accepted, max_energy, Etrue, l_ra, l_dec, cosz,
            detection_prob, aeff_queried>>
runvars == <<pc, err, N_arg, N, Nex, source_weights, poisson_drawn, i,
             sampler_call>>
simvars == <<config, catalog, locals, runvars>>
coordvars == <<stage, c_ra, c_dec, unit_vector, icrs>>
vars == <<simvars, coordvars>>

(* ------------------- simulator.py: run() helpers ---------------------- *)
\* _get_expected_number: np.array(Nex) / sum(Nex); 0 / 0 is nan, no exception
normalise(nex) ==
    LET total == SumSeq(nex)
    IN  [k \in 1 .. Len(nex) |->
            IF total = 0 THEN [nan |-> TRUE, num |-> 0, den |-> 0]
            ELSE [nan |-> FALSE, num |-> nex[k], den |-> total]]

\* `if not N`: None and 0 are both falsy
not_N(arg) == arg = <<>> \/ arg[1] = 0

\* np.random.choice(range(len(sources)), p=weights): with nan weights it
\* raises ValueError or returns index 0, depending on the numpy release
choice_label(w) ==
    IF \E k \in DOMAIN w : w[k].nan
    THEN {0, 1}
    ELSE {k \in DOMAIN w : w[k].num > 0}

\* the label an attempt of the while loop works with: line 118 is outside
\* the loop, so a retry keeps the trial's label
retry_labels_reselect(lbl) == choice_label(source_weights) \ {0}
retry_labels(lbl) == {lbl}

\* lines 124-126: upper energy and one energy of the labelled source's flux
thrown_first_source(lbl) ==
    { [Etrue |-> e, max_energy |-> UpperEnergy(1)] : e \in FluxEnergies(1) }
thrown(lbl) ==
    { [Etrue |-> e, max_energy |-> UpperEnergy(lbl)] : e \in FluxEnergies(lbl) }

\* lines 131-137: the zenith cut, else the effective-area lookup
acceptance_no_cut(cz, E, maxE) ==
    [prob |-> detection_probability(aeff, E, cz, maxE), queried |-> TRUE]
acceptance(cz, E, maxE) ==
    IF cz > max_cosz
    THEN [prob |-> 0, queried |-> FALSE]
    ELSE [prob |-> detection_probability(aeff, E, cz, maxE), queried |-> TRUE]

(* --------------------------- Init ------------------------------------- *)
InitRun ==
    /\ pc = "idle" /\ err = "" /\ N_arg = <<>> /\ N = 0
    /\ Nex = <<>> /\ source_weights = <<>> /\ poisson_drawn = FALSE
    /\ true_energy = <<>> /\ reco_energy = <<>> /\ coordinate = <<>>
    /\ ra = <<>> /\ dec = <<>> /\ source_label = <<>>
    /\ i = 0 /\ label = 0 /\ accepted = FALSE /\ max_energy = 0 /\ Etrue = 0
    /\ l_ra = 0 /\ l_dec = 0 /\ cosz = 0 /\ detection_prob = 0
    /\ aeff_queried = FALSE /\ sampler_call = <<>>

InitCoordOff ==
    /\ stage = "off" /\ c_ra = 0 /\ c_dec = 0
    /\ unit_vector = <<0, 0, 0>> /\ icrs = [ra |-> Deg(0), dec |-> 0]

Init ==
    /\ sources \in SourceLists
    /\ aeff \in AeffTables
    /\ nu_calc \in [1 .. Len(sources) -> ExpectedCounts]
    /\ max_cosz \in MaxCoszValues
    /\ InitRun
    /\ InitCoordOff

(* --------------------------- run() ------------------------------------ *)
\* lines 99-114: weights, total count, fresh catalog lists
Run(arg) ==
    /\ pc \in {"idle", "done", "error"}
    /\ N_arg' = arg
    /\ Nex' = nu_calc
    /\ source_weights' = normalise(nu_calc)
    /\ IF not_N(arg)
       THEN /\ N' \in Poisson(SumSeq(nu_calc))
            /\ poisson_drawn' = TRUE
       ELSE /\ N' = arg[1]
            /\ poisson_drawn' = FALSE
    /\ true_energy' = <<>> /\ reco_energy' = <<>> /\ coordinate' = <<>>
    /\ ra' = <<>> /\ dec' = <<>> /\ source_label' = <<>>
    /\ i' = 0 /\ label' = 0 /\ accepted' = FALSE /\ max_energy' = 0
    /\ Etrue' = 0 /\ l_ra' = 0 /\ l_dec' = 0 /\ cosz' = 0
    /\ detection_prob' = 0 /\ aeff_queried' = FALSE /\ sampler_call' = <<>>
    /\ pc' = "for" /\ err' = ""
    /\ UNCHANGED <<config, coordvars>>

\* line 116: the for loop's test
ForNext ==
    /\ pc = "for"
    /\ pc' = IF i < N THEN "select" ELSE "done"
    /\ UNCHANGED <<config, catalog, locals, err, N_arg, N, Nex, source_weights,
                   poisson_drawn, i, sampler_call, coordvars>>

\* lines 118-120: the trial's source, chosen once before the while loop
Select ==
    /\ pc = "select"
    /\ \E k \in choice_label(source_weights) :
          IF k = 0
          THEN /\ pc' = "error" /\ err' = "ValueError"
               /\ UNCHANGED <<label, accepted>>
          ELSE /\ pc' = "while" /\ label' = k /\ accepted' = FALSE
               /\ UNCHANGED err
    /\ sampler_call' = <<>>
    /\ UNCHANGED <<config, catalog, max_energy, Etrue, l_ra, l_dec, cosz,
                   detection_prob, aeff_queried, N_arg, N, Nex, source_weights,
                   poisson_drawn, i, coordvars>>

\* lines 122-139: one pass of the while loop's body
Attempt ==
    /\ pc = "while"
    /\ \E lbl \in retry_labels(label) :
       \E t \in thrown(lbl) :
       \E u \in USamples, v \in VSamples :
          LET d == sphere_sample(u, v)
              cz == -Sin(d.dec)
              a == acceptance(cz, t.Etrue, t.max_energy)
          IN  /\ label' = lbl
              /\ max_energy' = t.max_energy
              /\ Etrue' = t.Etrue
              /\ l_ra' = d.ra /\ l_dec' = d.dec /\ cosz' = cz
              /\ detection_prob' = a.prob
              /\ aeff_queried' = a.queried
              /\ accepted' \in Bernoulli(a.prob)
              /\ pc' = IF accepted' THEN "append" ELSE "while"
    /\ UNCHANGED <<config, catalog, err, N_arg, N, Nex, source_weights,
                   poisson_drawn, i, sampler_call, coordvars>>

\* lines 141-157: the accepted trial becomes an event
AppendEvent ==
    /\ pc = "append"
    /\ true_energy' = Append(true_energy, Etrue)
    /\ \E Ereco \in energy_resolution_sample(Etrue) :
          reco_energy' = Append(reco_energy, Ereco)
    /\ IF sources[label] = DIFFUSE
       THEN /\ coordinate' = Append(coordinate, <<l_ra, l_dec>>)
            /\ ra' = Append(ra, l_ra)
            /\ dec' = Append(dec, l_dec)
            /\ i' = i + 1
            /\ pc' = "for"
            /\ UNCHANGED <<err, sampler_call>>
       ELSE /\ sampler_call' = <<Etrue, l_ra, l_dec>>
            /\ err' = angular_resolution_sample(Etrue, l_ra, l_dec).raises
            /\ pc' = "error"
            /\ UNCHANGED <<coordinate, ra, dec, i>>
    /\ UNCHANGED <<config, source_label, locals, N_arg, N, Nex, source_weights,
                   poisson_drawn, coordvars>>

RunStep == ForNext \/ Select \/ Attempt \/ AppendEvent

Next ==
    \/ \E arg \in {<<>>} \cup { <<n>> : n \in 0 .. MaxN } : Run(arg)
    \/ ForNext
    \/ Select
    \/ Attempt
    \/ AppendEvent

Spec == Init /\ [][Next]_vars

\* once called, run() executes to its end: its steps are never withheld
FairSpec == Spec /\ WF_vars(RunStep)


(* ------------- a caller's round trip through the conversions ---------- *)
RaGrid == { 30 * k : k \in 0 .. 11 }
DecGrid == { 30 * k - 90 : k \in 0 .. 6 }

InitCoord ==
    /\ sources = <<DIFFUSE>> /\ aeff = "mixed" /\ nu_calc = <<2>>
    /\ max_cosz = 1000
    /\ InitRun
    /\ stage = "input" /\ c_ra \in RaGrid /\ c_dec \in DecGrid
    /\ unit_vector = <<0, 0, 0>> /\ icrs = [ra |-> Deg(0), dec |-> 0]

ToUnitVector ==
    /\ stage = "input"
    /\ unit_vector' = icrs_to_unit_vector(c_ra, c_dec)
    /\ stage' = "vector"
    /\ UNCHANGED <<simvars, c_ra, c_dec, icrs>>

ToIcrs ==
    /\ stage = "vector"
    /\ icrs' = unit_vector_to_icrs(unit_vector)
    /\ stage' = "icrs"
    /\ UNCHANGED <<simvars, c_ra, c_dec, unit_vector>>

NextCoord == ToUnitVector \/ ToIcrs

SpecCoord == InitCoord /\ [][NextCoord]_vars

(* ============================ claims ================================== *)
\* run() is between its first and its last line
InRun == pc \in {"for", "select", "while", "append"}
\* some source has a positive expected count: the weights are numbers
ValidWeights == SumSeq(nu_calc) > 0
\* the lengths of the five catalog sequences
Lengths ==
    { Len(true_energy), Len(reco_energy), Len(ra), Len(dec), Len(source_label) }

\* C1: a forced N (any integer >= 0, 0 included) is used directly, with no
\* Poisson draw, and the finished run holds exactly N events; the Poisson
\* draw happens only when no N is supplied.  (Stated for valid weights.)
C1_ForcedCountUsed ==
    (ValidWeights /\ pc # "idle") =>
        IF N_arg = <<>>
        THEN poisson_drawn
        ELSE /\ ~poisson_drawn
             /\ N = N_arg[1]
             /\ (pc = "done" => Len(true_energy) = N_arg[1])

\* C2: the five catalog sequences have length N when the run is complete,
\* and length i after every completed trial i.  (Stated for valid weights.)
C2_AlignedSequences ==
    ValidWeights =>
        /\ (pc = "done" => Lengths = {N})
        /\ (pc = "for" => Lengths = {i})

\* C3: an attempt whose cos-zenith exceeds max_cosz has detection
\* probability 0, does not query the effective area and is not accepted; no
\* event in the catalog has a direction whose cos-zenith exceeds max_cosz.
C3_ZenithCut ==
    /\ (Etrue # 0 /\ cosz > max_cosz) =>
            (detection_prob = 0 /\ ~aeff_queried /\ ~accepted)
    /\ \A k \in DOMAIN dec : -Sin(dec[k]) <= max_cosz

\* an attempt above the cutoff is rejected under an effective area that
\* is not zero everywhere, in a run that has already appended an event
C3_Witness ==
    /\ pc = "while" /\ cosz > max_cosz /\ Etrue # 0
    /\ aeff = "mixed" /\ Len(dec) >= 1

\* C4: the rejection sub-loop never spins forever: with detection
\* probability 0 for every attempt (effective area fixed at 0, max_cosz = 1,
\* valid weights, N forced to 1 or more) the run eventually stops with an
\* error.
C4_RejectionLoopStops ==
    (pc = "while" /\ aeff = "zero" /\ max_cosz = 1000 /\ ValidWeights
        /\ ~not_N(N_arg))
        ~> (pc = "error")

\* C5: with every expected count zero the weighting step itself raises:
\* no weight vector is produced, no trial starts, the run never completes.
C5_AllZeroRaisesAtWeighting ==
    (pc # "idle" /\ SumSeq(nu_calc) = 0) =>
        (pc = "error" /\ source_weights = <<>> /\ i = 0)

\* C6: every appended event has a reconstructed direction: for a DIFFUSE
\* source the trial's true (ra, dec), the sampler not being called; for a
\* POINT source the sampler's output for the trial's energy and direction.
\* (Stated for valid weights.)
C6_ReconstructedDirection ==
    ValidWeights =>
        /\ \A k \in DOMAIN true_energy : k \in DOMAIN coordinate
        /\ (pc = "for" /\ i > 0) =>
              IF sources[label] = DIFFUSE
              THEN coordinate[i] = <<ra[i], dec[i]>> /\ sampler_call = <<>>
              ELSE sampler_call = <<true_energy[i], ra[i], dec[i]>>

\* the locals are those of one attempt on the trial's source that was accepted
AcceptedAttempt ==
    /\ accepted
    /\ label \in DOMAIN sources
    /\ Etrue \in FluxEnergies(label)
    /\ max_energy = UpperEnergy(label)
    /\ \E u \in USamples, v \in VSamples :
          sphere_sample(u, v) = [ra |-> l_ra, dec |-> l_dec]
    /\ cosz = -Sin(l_dec)
    /\ detection_prob > 0
    /\ detection_prob =
          IF cosz > max_cosz THEN 0
          ELSE detection_probability(aeff, Etrue, cosz, max_energy)

\* what a step of run() may do to the catalog
C7_Step ==
    /\ pc = "append" =>
          /\ AcceptedAttempt
          /\ true_energy' = Append(true_energy, Etrue)
          /\ \E e \in energy_resolution_sample(Etrue) :
                reco_energy' = Append(reco_energy, e)
          /\ IF sources[label] = DIFFUSE
             THEN /\ ra' = Append(ra, l_ra) /\ dec' = Append(dec, l_dec)
                  /\ coordinate' = Append(coordinate, <<l_ra, l_dec>>)
             ELSE sampler_call' = <<Etrue, l_ra, l_dec>>
    /\ pc \in {"for", "select", "while"} => catalog' = catalog

\* C7: an event is made of the values of the accepting attempt of its own
\* trial: when the loop is left the locals are those of one accepted attempt
\* on the trial's source, the append step records exactly them (the energy
\* resolution and the angular sampler are handed them), and no other step of
\* the run touches the catalog.
C7_SameTrialValues == [][C7_Step]_vars

\* two trials of one run, the second accepted on the second source after
\* the first was accepted on the first source with other values
C7_Witness ==
    /\ pc = "for" /\ i = 2 /\ label = 2
    /\ true_energy[1] # true_energy[2] /\ dec[1] # dec[2]
    /\ true_energy[2] = Etrue /\ dec[2] = l_dec

\* C8: unit_vector_to_icrs(icrs_to_unit_vector(ra, dec)) = (ra, dec) in every
\* quadrant; at the poles (x = y = 0) it returns ra = 0 and the right dec.
\* (The south pole is left out: in floating point sin(pi) is not exactly 0,
\* so x = y = 0 is met at the north pole only.)
C8_RoundTrip ==
    (stage = "icrs" /\ c_dec # -90) =>
        IF unit_vector[1] = 0 /\ unit_vector[2] = 0
        THEN icrs = [ra |-> Deg(0), dec |-> c_dec]
        ELSE icrs = [ra |-> Deg(c_ra), dec |-> c_dec]

\* C9 (as claimed): after a rejected attempt the trial starts again at the
\* source selection.  (Stated for valid weights.)
C9_RetryReselects ==
    [][(ValidWeights /\ pc = "while" /\ pc' # "append") => pc' = "select"]_vars

\* C9 (amended): the source is selected once per trial, before the rejection
\* sub-loop; every attempt, the first and each retry, keeps that source and
\* redraws only energy and direction.
C9_RetryKeepsLabel ==
    [][pc = "while" => (pc' \in {"while", "append"} /\ label' = label)]_vars

\* a rejected attempt of the current trial, with two sources of non-zero
\* weight to choose from
C9_Witness ==
    /\ pc = "while" /\ Etrue # 0 /\ detection_prob = 0 /\ ~accepted
    /\ Len(source_weights) = 2
    /\ \A k \in DOMAIN source_weights : source_weights[k].num > 0

\* C10: after any sequence of runs the catalog sequences hold the events of
\* the latest run only, each of length N of that run, and the weights are
\* those computed at the run's start.  (Stated for valid weights.)
C10_OnlyLatestRun ==
    ValidWeights =>
        /\ pc = "done" =>
              /\ Len(true_energy) = N /\ Len(reco_energy) = N
              /\ Len(ra) = N /\ Len(dec) = N /\ Len(source_label) = N
        /\ (InRun \/ pc = "done") => source_weights = normalise(Nex)

=============================================================================
